---- MODULE Spec2Model ----
\* sd-webui-editor-link: the websocket relay hub (scripts/editor_link/link.py)
\* and the Photoshop plugin synchroniser (scripts/editor_link/photoshop_plugin.py).
EXTENDS Integers, Sequences, FiniteSets, TLC

\* ------------------------------------------------------------------ bounds
\* Connections the server accepts in one run (client objects are never reused).
MaxClients == 3
\* Broadcast calls (relayed frames, direct calls, host-thread calls) in one run.
MaxMsgs == 2
\* Connections plus broadcast calls in one run.
MaxLoad == 4
\* Distinct byte values a plugin file may hold.
NumBytes == 2
\* LinkScript objects the WebUI creates.
MaxScripts == 2
\* Calls of LinkScript.postprocess in one run.
MaxPosts == 3
\* Launches of the Adobe installer in one run.
MaxLaunches == 2

\* ------------------------------------------------------------------ relay state
VARIABLES
    clients,    \* SDSync.clients: the registry, a set of WebsocketClient objects
    hpc,        \* per connection: where its websocket_endpoint coroutine stands
    ws,         \* per connection: the state of the websocket itself
    inbox,      \* per connection: the messages its peer has received, in order
    bc,         \* every broadcast call made so far, with its send tasks
    thread      \* the host callback thread running broadcast_message_threaded

\* ------------------------------------------------------------------ plugin state
VARIABLES
    src,        \* the plugin source tree (ps_extension_path): path -> bytes
    glob_order, \* the order in which glob('**/*') lists the source tree
    inst_dirs,  \* versions with a directory sd-webui-editor-link_<version>
    inst,       \* files in installed_plugin_path: path -> bytes
    upd,        \* the running (or last) call of update_photoshop_plugin
    status_out  \* the last value get_plugin_status produced

\* ------------------------------------------------------------------ host state
VARIABLES
    loop_of,    \* per client object: WebsocketClient.loop
    probe,      \* a call made from a chosen context, and what came of it
    host,       \* the WebUI: cmd_opts, the LinkScript objects, SDSync.singleton
    loop_runs,  \* whether the server's event loop is running
    installer   \* the launches of the Adobe installer, and what made them

relay_vars == <<clients, hpc, ws, inbox, bc, thread>>
sync_vars == <<src, glob_order, inst_dirs, inst, upd, status_out>>
host_vars == <<loop_of, probe, host, loop_runs, installer>>
vars == <<clients, hpc, ws, inbox, bc, thread,
          src, glob_order, inst_dirs, inst, upd, status_out,
          loop_of, probe, host, loop_runs, installer>>

\* ================================================================== RELAY
Clients == 1..MaxClients

\* Python's None, as a connection handle that no websocket has.
None == 0

\* WebsocketClient.__init__: the connection handle the client object wraps.
\* Client objects are 1..MaxClients, their handles 101..; both are identities.
WebsocketOf(c) == 100 + c

\* The event loops of the process: the server's, on which it runs every
\* websocket_endpoint coroutine, and one more that some other code may run.
Loops == {"server_loop", "other_loop"}

\* WebsocketClient.__init__: the loop the client was created on.
LoopOf(c) == loop_of[c]

\* _get_actual_event_loop: the loop running in the caller's context, None in
\* a thread that runs no loop.
GetActualEventLoop(context) ==
    IF context = "thread" THEN "no_loop" ELSE "server_loop"

\* self.clients.add(client)
RegistryAdd(reg, c) == reg \cup {c}

\* A removal that empties the registry.
RegistryClear(reg, c) == {}

\* A removal that removes nothing (as remove of the wrong object would).
RegistryRemoveNothing(reg, c) == reg

\* self.clients.remove(client)
RegistryRemove(reg, c) == reg \ {c}

\* The elements of a sequence.
Range(seq) == {seq[i] : i \in 1..Len(seq)}

\* The ascending sequence of the elements of a finite set of numbers.
RECURSIVE SetToSeq(_)
SetToSeq(S) ==
    IF S = {} THEN <<>>
    ELSE LET m == CHOOSE x \in S : \A y \in S : x <= y
         IN <<m>> \o SetToSeq(S \ {m})

\* A broadcast that forgets to skip source_client.
BroadcastTargetsAll(reg, source_client) == SetToSeq(reg)

\* broadcast_message, lines 179-184: one send coroutine per registered client
\* whose connection handle is not source_client.
BroadcastTargets(reg, source_client) ==
    SetToSeq({c \in reg : WebsocketOf(c) # source_client})

\* A send task (a coroutine client.send_message(message)) not yet run.
Task(c) == [to |-> c, res |-> "pending", late |-> FALSE]

\* broadcast_message, line 184: the coroutines made for a list of targets.
Tasks(targets) == [i \in 1..Len(targets) |-> Task(targets[i])]

\* A send_message without its assertion.
LoopAssertionNone(c, running_loop) == TRUE

\* WebsocketClient.send_message, line 383: the assertion that the loop running
\* the coroutine is the loop the client was created on.
LoopAssertion(c, running_loop) == running_loop = LoopOf(c)

\* broadcast_message_threaded, line 195: the assertion that the calling thread
\* runs no event loop.
ThreadedAssertion(running_loop) == running_loop = "no_loop"

\* WebsocketClient.send_message run in `context` for client c with the socket
\* in state s: the loop assertion, then websocket.send_json, which raises
\* unless the socket is accepted and still connected.
SendMessage(c, running_loop, s) ==
    IF ~LoopAssertion(c, running_loop) THEN "AssertionError"
    ELSE IF s = "connected" THEN "ok" ELSE "RuntimeError"

\* asyncio.gather(*tasks) without return_exceptions: the first exception of a
\* task is raised to the caller.
GatherFailFast(tasks) ==
    IF \E i \in 1..Len(tasks) : tasks[i].res = "failed" THEN "raise"
    ELSE IF \E i \in 1..Len(tasks) : tasks[i].res = "pending" THEN "wait"
    ELSE "return"

\* asyncio.gather(*tasks, return_exceptions=True): waits for every task and
\* returns; an exception of a task is a value of the result list.
Gather(tasks) ==
    IF \E i \in 1..Len(tasks) : tasks[i].res = "pending" THEN "wait"
    ELSE "return"

\* The host thread outside broadcast_message_threaded.
ThreadIdle == [pc |-> "idle", err |-> "", b |-> 0, size |-> 0,
               snap |-> {}, seen |-> {}, idx |-> 0]

RelayInit ==
    /\ clients = {}
    /\ hpc = [c \in Clients |-> "none"]
    /\ ws = [c \in Clients |-> "connecting"]
    /\ inbox = [c \in Clients |-> <<>>]
    /\ bc = <<>>
    /\ thread = ThreadIdle

\* The host as the relay and the synchroniser see it: one server loop, no call
\* from a chosen context, the WebUI not looked at.
ProbeIdle == [caller |-> "no_loop", op |-> "none", err |-> "",
              out |-> [c \in Clients |-> "none"]]
HostIdle == [share |-> FALSE, listen |-> FALSE, server_name |-> "",
             scripts |-> 0, callbacks |-> {}, started |-> FALSE, ran |-> {},
             plugin |-> {}, constructed |-> 0, routes |-> 0,
             returned |-> 0, rendered |-> 0, broadcasts |-> 0]
\* photoshop_plugin not yet imported, the installer never launched.
InstallerIdle == [loaded |-> FALSE, launches |-> <<>>]
HostInit ==
    /\ loop_of = [c \in Clients |-> "server_loop"]
    /\ probe = ProbeIdle
    /\ host = HostIdle
    /\ loop_runs = TRUE
    /\ installer = InstallerIdle

\* Inbound frames: a JSON object whose action the plugin knows, a JSON object
\* with another action, JSON that is no object, bytes that are no JSON.
Frames == {"load-image", "other-action", "array", "garbage"}

\* A relay that takes every frame that is JSON.
DecodesAnyJson(frame) == frame # "garbage"

\* websocket_endpoint, line 155, and handle_websocket_message, line 166:
\* receive_json returns what json.loads makes of the frame, and data.get is
\* there for a mapping only; the value of 'action' is read and not used.
DecodesToMapping(frame) == frame \in {"load-image", "other-action"}

\* handle_websocket_message, line 169: the source_client it passes to
\* broadcast_message for a frame that came in on `websocket` (it passes none).
RelaySourceClient(websocket) == None

\* Connections accepted and broadcast calls made so far; a run stays within
\* MaxLoad of them.
Load == Cardinality({c \in Clients : hpc[c] # "none"}) + Len(bc)
CanCall == Len(bc) < MaxMsgs /\ Load < MaxLoad

\* The clients whose handler has run its finally block.
Exited == {c \in Clients : hpc[c] = "exited"}

\* A new broadcast call: who made it, the frame it relays (a message of the
\* host's own otherwise), its source_client, the registry and the
\* exited clients when it started (kept for the properties), its send tasks.
NewBroadcast(kind, caller, frame, source, tasks) ==
    [kind |-> kind, caller |-> caller, frame |-> frame, src |-> source,
     reg |-> clients, gone |-> Exited, tasks |-> tasks, state |-> "running"]

\* websocket_endpoint, lines 159-163: the exception leaves the coroutine; the
\* finally block removes the client, and the server closes the connection of
\* a handler that has ended.
HandlerExit(c) ==
    /\ clients' = RegistryRemove(clients, c)
    /\ hpc' = [hpc EXCEPT ![c] = "exited"]
    /\ ws' = [ws EXCEPT ![c] = "disconnected"]

\* websocket_endpoint, lines 145-149: a connection arrives; the client object
\* is created and registered before the handshake is answered.
Connect(c) ==
    /\ loop_runs
    /\ hpc[c] = "none"
    /\ \A d \in Clients : d < c => hpc[d] # "none"
    /\ Load < MaxLoad
    /\ clients' = RegistryAdd(clients, c)
    /\ hpc' = [hpc EXCEPT ![c] = "accepting"]
    /\ UNCHANGED <<ws, inbox, bc, thread>>
    /\ UNCHANGED sync_vars
    /\ UNCHANGED host_vars

\* The peer goes away (close frame or lost connection); the handler learns of
\* it at its next accept or receive.
PeerClose(c) ==
    /\ hpc[c] \in {"accepting", "receiving", "gathering"}
    /\ ws[c] \in {"connecting", "connected"}
    /\ ws' = [ws EXCEPT ![c] = "disconnected"]
    /\ UNCHANGED <<clients, hpc, inbox, bc, thread>>
    /\ UNCHANGED sync_vars
    /\ UNCHANGED host_vars

\* websocket_endpoint, line 151: await websocket.accept().
Accept(c) ==
    /\ loop_runs
    /\ hpc[c] = "accepting"
    /\ IF ws[c] = "connecting"
       THEN /\ ws' = [ws EXCEPT ![c] = "connected"]
            /\ hpc' = [hpc EXCEPT ![c] = "receiving"]
            /\ UNCHANGED clients
       ELSE HandlerExit(c)
    /\ UNCHANGED <<inbox, bc, thread>>
    /\ UNCHANGED sync_vars
    /\ UNCHANGED host_vars

\* websocket_endpoint, line 155, on a closed connection: receive_json raises
\* WebSocketDisconnect, which is swallowed; the finally block runs.
ReceiveDisconnect(c) ==
    /\ loop_runs
    /\ hpc[c] = "receiving"
    /\ ws[c] = "disconnected"
    /\ HandlerExit(c)
    /\ UNCHANGED <<inbox, bc, thread>>
    /\ UNCHANGED sync_vars
    /\ UNCHANGED host_vars

\* websocket_endpoint, lines 155-156, and handle_websocket_message: a frame
\* arrives.  A JSON object is relayed with broadcast_message; receive_json
\* raises on bytes that are no JSON; data.get raises on JSON that is no object.
Receive(c, frame) ==
    /\ loop_runs
    /\ hpc[c] = "receiving"
    /\ ws[c] = "connected"
    /\ IF DecodesToMapping(frame)
       THEN /\ CanCall
            /\ bc' = Append(bc, NewBroadcast("coop", c, frame,
                        RelaySourceClient(WebsocketOf(c)),
                        Tasks(BroadcastTargets(clients,
                                               RelaySourceClient(WebsocketOf(c))))))
            /\ hpc' = [hpc EXCEPT ![c] = "gathering"]
            /\ UNCHANGED <<clients, ws>>
       ELSE /\ HandlerExit(c)
            /\ UNCHANGED bc
    /\ UNCHANGED <<inbox, thread>>
    /\ UNCHANGED sync_vars
    /\ UNCHANGED host_vars

\* broadcast_message(message, source_client) called by a coroutine of the
\* server loop other than a connection handler.
DirectBroadcast(source) ==
    /\ loop_runs
    /\ CanCall
    /\ bc' = Append(bc, NewBroadcast("coop", 0, "host", source,
                Tasks(BroadcastTargets(clients, source))))
    /\ UNCHANGED <<clients, hpc, ws, inbox, thread>>
    /\ UNCHANGED sync_vars
    /\ UNCHANGED host_vars

\* broadcast_message, line 186, and broadcast_message_threaded, line 200: the
\* loop starts send coroutines in the order they reached it, and the writes to
\* one socket keep that order.  A broadcast_message makes its tasks on the
\* loop as it is called, so its send to a client goes before the send of any
\* later call.  A send of broadcast_message_threaded reaches the loop when the
\* host thread gets to it, through call_soon_threadsafe, so the send of a
\* later broadcast_message may go before it.
SendAhead(b, c) ==
    \E a \in 1..(b - 1) :
        /\ bc[a].kind = "coop" \/ bc[b].kind = "thread"
        /\ \E j \in 1..Len(bc[a].tasks) :
               bc[a].tasks[j].to = c /\ bc[a].tasks[j].res = "pending"

\* One send coroutine runs: of a cooperative broadcast on the caller's loop,
\* of a threaded broadcast on the loop run_coroutine_threadsafe was given.
SendStep(b, i) ==
    /\ loop_runs
    /\ b \in 1..Len(bc)
    /\ i \in 1..Len(bc[b].tasks)
    /\ bc[b].tasks[i].res = "pending"
    /\ ~SendAhead(b, bc[b].tasks[i].to)
    /\ LET c == bc[b].tasks[i].to
           running == IF bc[b].kind = "coop"
                      THEN GetActualEventLoop("handler")
                      ELSE LoopOf(c)
           res == IF SendMessage(c, running, ws[c]) = "ok" THEN "ok" ELSE "failed"
       IN /\ bc' = [bc EXCEPT ![b].tasks[i] =
                        [to |-> c, res |-> res, late |-> c \notin clients]]
          /\ inbox' = IF res = "ok"
                      THEN [inbox EXCEPT ![c] = Append(@, b)]
                      ELSE inbox
    /\ UNCHANGED <<clients, hpc, ws, thread>>
    /\ UNCHANGED sync_vars
    /\ UNCHANGED host_vars

\* broadcast_message, line 186: the gather ends; handle_websocket_message
\* returns None, so no reply is sent and the handler receives again.
GatherStep(b) ==
    /\ loop_runs
    /\ b \in 1..Len(bc)
    /\ bc[b].kind = "coop"
    /\ bc[b].state = "running"
    /\ Gather(bc[b].tasks) # "wait"
    /\ IF Gather(bc[b].tasks) = "return"
       THEN /\ bc' = [bc EXCEPT ![b].state = "done"]
            /\ hpc' = IF bc[b].caller \in Clients
                      THEN [hpc EXCEPT ![bc[b].caller] = "receiving"]
                      ELSE hpc
            /\ UNCHANGED <<clients, ws>>
       ELSE /\ bc' = [bc EXCEPT ![b].state = "raised"]
            /\ IF bc[b].caller \in Clients
               THEN HandlerExit(bc[b].caller)
               ELSE UNCHANGED <<clients, hpc, ws>>
    /\ UNCHANGED <<inbox, thread>>
    /\ UNCHANGED sync_vars
    /\ UNCHANGED host_vars

\* broadcast_message_threaded, line 198: the set iterator's check at each
\* step, which raises "Set changed size during iteration".
SetChangedSize(reg, size) == Cardinality(reg) # size

\* broadcast_message_threaded, line 198: what the set iterator may yield next.
\* It walks the table once: it never yields an element twice, reaches every
\* element that stays in the set, and may or may not reach one added behind it.
SetIterCanYield(reg, seen) == reg \ seen
SetIterCanStop(reg, snap, seen) == (reg \cap snap) \subseteq seen

\* broadcast_message_threaded, line 204: future.result() blocks until the
\* coroutine has run, returns its value or raises its exception.
FutureResult(task) ==
    IF task.res = "pending" THEN "block"
    ELSE IF task.res = "ok" THEN "value" ELSE "raise"

\* broadcast_message_threaded, lines 195-197: the host thread enters; it runs
\* no event loop, so the assertion passes; the iteration of the registry begins.
ThreadStart ==
    /\ thread.pc = "idle"
    /\ CanCall
    /\ IF ThreadedAssertion(GetActualEventLoop("thread"))
       THEN /\ bc' = Append(bc, NewBroadcast("thread", 0, "host", None, <<>>))
            /\ thread' = [pc |-> "iterating", err |-> "", b |-> Len(bc) + 1,
                          size |-> Cardinality(clients), snap |-> clients,
                          seen |-> {}, idx |-> 0]
       ELSE /\ thread' = [thread EXCEPT !.pc = "raised", !.err = "assertion"]
            /\ UNCHANGED bc
    /\ UNCHANGED <<clients, hpc, ws, inbox>>
    /\ UNCHANGED sync_vars
    /\ UNCHANGED host_vars

\* broadcast_message_threaded, lines 198-201: one step of the for loop, run
\* by the host thread while the server loop adds and removes clients.
ThreadNext ==
    /\ thread.pc = "iterating"
    /\ IF SetChangedSize(clients, thread.size)
       THEN /\ thread' = [thread EXCEPT !.pc = "raised", !.err = "set_changed_size"]
            /\ bc' = [bc EXCEPT ![thread.b].state = "raised"]
       ELSE \/ \E c \in SetIterCanYield(clients, thread.seen) :
                 /\ bc' = [bc EXCEPT ![thread.b].tasks = Append(@, Task(c))]
                 /\ thread' = [thread EXCEPT !.seen = @ \cup {c}]
            \/ /\ SetIterCanStop(clients, thread.snap, thread.seen)
               /\ thread' = [thread EXCEPT !.pc = "waiting", !.idx = 1]
               /\ UNCHANGED bc
    /\ UNCHANGED <<clients, hpc, ws, inbox>>
    /\ UNCHANGED sync_vars
    /\ UNCHANGED host_vars

\* broadcast_message_threaded, lines 203-204: the host thread waits for the
\* futures in order; the first failed one raises out of the call.
ThreadWait ==
    /\ thread.pc = "waiting"
    /\ IF thread.idx > Len(bc[thread.b].tasks)
       THEN /\ thread' = [thread EXCEPT !.pc = "returned"]
            /\ bc' = [bc EXCEPT ![thread.b].state = "done"]
       ELSE /\ FutureResult(bc[thread.b].tasks[thread.idx]) # "block"
            /\ IF FutureResult(bc[thread.b].tasks[thread.idx]) = "value"
               THEN /\ thread' = [thread EXCEPT !.idx = @ + 1]
                    /\ UNCHANGED bc
               ELSE /\ thread' = [thread EXCEPT !.pc = "raised", !.err = "send_failed"]
                    /\ bc' = [bc EXCEPT ![thread.b].state = "raised"]
    /\ UNCHANGED <<clients, hpc, ws, inbox>>
    /\ UNCHANGED sync_vars
    /\ UNCHANGED host_vars

\* The server's event loop stops (the server shuts down or is reloaded) while
\* the host thread goes on: coroutines handed to it are kept and never run.
LoopStop ==
    /\ loop_runs
    /\ loop_runs' = FALSE
    /\ UNCHANGED <<loop_of, probe, host, installer>>
    /\ UNCHANGED relay_vars
    /\ UNCHANGED sync_vars

\* The host callback that made the call ends; the thread is free for the next.
ThreadEnd ==
    /\ thread.pc \in {"returned", "raised"}
    /\ thread' = ThreadIdle
    /\ UNCHANGED <<clients, hpc, ws, inbox, bc>>
    /\ UNCHANGED sync_vars
    /\ UNCHANGED host_vars

RelayNext ==
    \/ \E c \in Clients : Connect(c)
    \/ \E c \in Clients : PeerClose(c)
    \/ \E c \in Clients : Accept(c)
    \/ \E c \in Clients : ReceiveDisconnect(c)
    \/ \E c \in Clients, frame \in Frames : Receive(c, frame)
    \/ \E source \in {None} \cup {WebsocketOf(c) : c \in Clients} : DirectBroadcast(source)
    \/ \E b \in 1..MaxMsgs, i \in 1..MaxClients : SendStep(b, i)
    \/ \E b \in 1..MaxMsgs : GatherStep(b)
    \/ ThreadStart
    \/ ThreadNext
    \/ ThreadWait
    \/ ThreadEnd

\* The host thread's broadcasts alone, with the loop free to stop.
LiveNext ==
    \/ \E c \in Clients : Connect(c)
    \/ \E c \in Clients : PeerClose(c)
    \/ \E c \in Clients : Accept(c)
    \/ \E c \in Clients : ReceiveDisconnect(c)
    \/ \E b \in 1..MaxMsgs, i \in 1..MaxClients : SendStep(b, i)
    \/ ThreadStart
    \/ ThreadNext
    \/ ThreadWait
    \/ ThreadEnd
    \/ LoopStop

\* The loop runs every coroutine that is ready while it runs, and the host
\* thread runs on.
LiveFairness ==
    /\ WF_vars(\E b \in 1..MaxMsgs, i \in 1..MaxClients : SendStep(b, i))
    /\ WF_vars(ThreadNext)
    /\ WF_vars(ThreadWait)

\* ================================================================== PLUGIN SYNC
Bytes == 1..NumBytes

\* What a file may hold: nothing, or one byte.
Contents == {<<>>} \cup {<<b>> : b \in Bytes}

\* A path at which there is no file.
Absent == <<-1>>

\* The files of the plugin source tree, and their order under sorted().
Paths == {"a.js", "b.js"}
SortedPaths == <<"a.js", "b.js">>

\* The orders in which glob may list the source tree.
GlobOrders == {<<"a.js", "b.js">>, <<"b.js", "a.js">>}

VersionTxt == "version.txt"
AllPaths == Paths \cup {VersionTxt}

\* _get_plugin_version: the version of manifest.json, which names the
\* directory the plugin is installed in; and a version that is not it.
PluginVersion == "1.0.0"
OtherVersion == "0.9.0"
Versions == {PluginVersion, OtherVersion}

\* hashlib.sha256 over the bytes fed to it, as hexdigest: never empty, and
\* taken to be injective on the bytes.
Sha256Hex(data) == <<0>> \o data

\* _read_photoshop_plugin_files, lines 123-126: the bytes hash.update is fed,
\* the data of the files in sorted order of their paths.
RECURSIVE HashInput(_, _)
HashInput(paths, tree) ==
    IF paths = <<>> THEN <<>>
    ELSE (IF tree[Head(paths)] = Absent THEN <<>> ELSE tree[Head(paths)])
         \o HashInput(Tail(paths), tree)

\* _read_photoshop_plugin_files: every file of the tree, and version.txt
\* holding the hash of the others.
ReadPhotoshopPluginFiles(tree) ==
    [p \in AllPaths |->
        IF p = VersionTxt THEN Sha256Hex(HashInput(SortedPaths, tree))
        ELSE tree[p]]

\* _get_current_plugin_version: devel is True, so the tree is read each time.
GetCurrentPluginVersion(tree) == ReadPhotoshopPluginFiles(tree)[VersionTxt]

\* A test that takes the directory of any version for the plugin's.
InstalledPathExistsAnyVersion(dirs) == dirs # {}

\* installed_plugin_path.exists()
InstalledPathExists(dirs) == PluginVersion \in dirs

\* _installed_plugin_version: the version of the first directory glob finds
\* with the plugin's prefix, None when there is none.
InstalledPluginVersion(dirs) ==
    IF dirs = {} THEN "None" ELSE CHOOSE v \in dirs : TRUE

\* check_plugin_contents: opening a version.txt that is not there raises.
CheckPluginContents(dirs, installed, tree) ==
    IF ~InstalledPathExists(dirs) THEN "False"
    ELSE IF installed[VersionTxt] = Absent THEN "FileNotFoundError"
    ELSE IF installed[VersionTxt] = GetCurrentPluginVersion(tree) THEN "True"
    ELSE "False"

\* get_plugin_status
GetPluginStatus(dirs, installed, tree) ==
    IF ~InstalledPathExists(dirs)
    THEN IF InstalledPluginVersion(dirs) # "None"
         THEN "reinstall-required"
         ELSE "not-installed"
    ELSE IF CheckPluginContents(dirs, installed, tree) = "FileNotFoundError"
         THEN "FileNotFoundError"
    ELSE IF CheckPluginContents(dirs, installed, tree) = "False"
         THEN "not-synced"
    ELSE "ok"

\* An ordering that leaves version.txt where the dictionary has it when the
\* tree is listed after it: first.
FilenamesMarkerFirst(files, order) ==
    LET Present(p) == files[p] # Absent
    IN <<VersionTxt>> \o SelectSeq(order, Present)

\* update_photoshop_plugin, lines 255-257: the keys of files in the order the
\* tree was listed, version.txt moved to the end.
Filenames(files, order) ==
    LET Present(p) == files[p] # Absent
    IN SelectSeq(order, Present) \o <<VersionTxt>>

\* No installation directory: no file at any path.
NoFiles == [p \in AllPaths |-> Absent]

\* update_photoshop_plugin not running.  prior counts the calls that ended
\* since the source tree or the installation was last changed from outside.
UpdateIdle(prior) ==
    [pc |-> "idle", files |-> NoFiles, names |-> <<>>, idx |-> 0,
     writes |-> <<>>, ran |-> FALSE, prior |-> prior]

\* update_photoshop_plugin, lines 236-257: the two early returns, then the
\* files are read and ordered.
UpdateEntered ==
    IF ~InstalledPathExists(inst_dirs)
    THEN [upd EXCEPT !.pc = "returned"]
    ELSE IF CheckPluginContents(inst_dirs, inst, src) = "FileNotFoundError"
    THEN [upd EXCEPT !.pc = "raised"]
    ELSE IF CheckPluginContents(inst_dirs, inst, src) = "True"
    THEN [upd EXCEPT !.pc = "returned"]
    ELSE [upd EXCEPT !.pc = "writing",
                     !.files = ReadPhotoshopPluginFiles(src),
                     !.names = Filenames(ReadPhotoshopPluginFiles(src), glob_order),
                     !.idx = 1,
                     !.ran = TRUE]

\* update_photoshop_plugin is called: by SDSync.__init__ (link.py, line 138) or
\* by the update-photoshop-plugin endpoint (link.py, line 104).
UpdateStart ==
    /\ upd.pc = "idle"
    /\ upd' = UpdateEntered
    /\ UNCHANGED <<src, glob_order, inst_dirs, inst, status_out>>
    /\ UNCHANGED relay_vars
    /\ UNCHANGED host_vars

\* An update that rewrites every file of the manifest.
SameDataNever(installed_data, data) == FALSE

\* update_photoshop_plugin, lines 263-267: "Don't touch files that haven't
\* changed."
SameData(installed_data, data) == installed_data = data

\* update_photoshop_plugin, lines 259-272: one turn of the loop.  The installed
\* file is opened for reading, which raises when it is not there; an equal file
\* is skipped; any other is truncated and rewritten.
UpdateStep ==
    /\ upd.pc = "writing"
    /\ IF upd.idx > Len(upd.names)
       THEN /\ upd' = [upd EXCEPT !.pc = "returned"]
            /\ UNCHANGED inst
       ELSE LET path == upd.names[upd.idx]
                data == upd.files[path]
            IN IF inst[path] = Absent
               THEN /\ upd' = [upd EXCEPT !.pc = "raised"]
                    /\ UNCHANGED inst
               ELSE IF SameData(inst[path], data)
               THEN /\ upd' = [upd EXCEPT !.idx = @ + 1]
                    /\ UNCHANGED inst
               ELSE /\ inst' = [inst EXCEPT ![path] = data]
                    /\ upd' = [upd EXCEPT !.idx = @ + 1,
                                          !.writes = Append(@, path)]
    /\ UNCHANGED <<src, glob_order, inst_dirs, status_out>>
    /\ UNCHANGED relay_vars
    /\ UNCHANGED host_vars

\* The process is stopped while update_photoshop_plugin is in its loop.
UpdateInterrupt ==
    /\ upd.pc = "writing"
    /\ upd' = [upd EXCEPT !.pc = "interrupted"]
    /\ UNCHANGED <<src, glob_order, inst_dirs, inst, status_out>>
    /\ UNCHANGED relay_vars
    /\ UNCHANGED host_vars

\* The call is over (or the process is started again); the next may begin.
UpdateEnd ==
    /\ upd.pc \in {"returned", "raised", "interrupted"}
    /\ upd' = UpdateIdle(IF upd.pc = "interrupted" THEN 0 ELSE 1)
    /\ UNCHANGED <<src, glob_order, inst_dirs, inst, status_out>>
    /\ UNCHANGED relay_vars
    /\ UNCHANGED host_vars

\* A file of the source tree is added, changed or removed between calls.
SourceEdit(p, v) ==
    /\ upd.pc = "idle"
    /\ v # src[p]
    /\ src' = [src EXCEPT ![p] = v]
    /\ glob_order' \in GlobOrders
    /\ upd' = UpdateIdle(0)
    /\ UNCHANGED <<inst_dirs, inst, status_out>>
    /\ UNCHANGED relay_vars
    /\ UNCHANGED host_vars

\* install_photoshop_plugin and the installer it launches: the package made by
\* _package_photoshop_plugin is unpacked as the directory of PluginVersion.
InstallPackage ==
    /\ upd.pc = "idle"
    /\ inst_dirs' = {PluginVersion}
    /\ inst' = ReadPhotoshopPluginFiles(src)
    /\ upd' = UpdateIdle(0)
    /\ UNCHANGED <<src, glob_order, status_out>>
    /\ UNCHANGED relay_vars
    /\ UNCHANGED host_vars

Trees == [Paths -> Contents \cup {Absent}]

SyncInit ==
    /\ src \in Trees
    /\ glob_order \in GlobOrders
    /\ inst_dirs \in {{}, {OtherVersion}}
    /\ inst = NoFiles
    /\ upd = UpdateIdle(0)
    /\ status_out = "unset"

SyncNext ==
    \/ UpdateStart
    \/ UpdateStep
    \/ UpdateInterrupt
    \/ UpdateEnd
    \/ \E p \in Paths, v \in Contents \cup {Absent} : SourceEdit(p, v)
    \/ InstallPackage

\* ------------------------------------------------------------------
\* get_plugin_status as a function of the file system: every source tree and
\* every state of the plugin directories, then one call.
Markers == {GetCurrentPluginVersion(t) : t \in Trees}

StatusInit ==
    /\ src \in Trees
    /\ glob_order = SortedPaths
    /\ inst_dirs \in SUBSET Versions
    /\ inst \in [AllPaths -> Contents \cup Markers \cup {Absent}]
    /\ \A p \in Paths : inst[p] \in Contents \cup {Absent}
    /\ inst[VersionTxt] \in Markers \cup {Absent}
    /\ ~InstalledPathExists(inst_dirs) => inst = NoFiles
    /\ upd = UpdateIdle(0)
    /\ status_out = "unset"

StatusCall ==
    /\ status_out = "unset"
    /\ status_out' = GetPluginStatus(inst_dirs, inst, src)
    /\ UNCHANGED <<src, glob_order, inst_dirs, inst, upd>>
    /\ UNCHANGED relay_vars
    /\ UNCHANGED host_vars

\* ================================================================== INSTALLER
\* What can make install_photoshop_plugin run.
Causes == {"module_load", "request"}

\* install_photoshop_plugin, lines 214-228: the package is written and opened
\* with the installer agent, which shows the Creative Cloud window; where the
\* agent is not present, FileNotFoundError is caught and nothing happens.  The
\* user may let the installer unpack the package or close the window.
InstallPhotoshopPlugin(cause, present, accepted) ==
    /\ installer' = [installer EXCEPT
                        !.loaded = TRUE,
                        !.launches = IF present THEN Append(@, cause) ELSE @]
    /\ IF present /\ accepted
       THEN /\ inst_dirs' = {PluginVersion}
            /\ inst' = ReadPhotoshopPluginFiles(src)
       ELSE UNCHANGED <<inst_dirs, inst>>

\* The module photoshop_plugin is imported (link.py, line 15): its last
\* statement calls test(), lines 274-285, which installs or updates the plugin
\* by its status.
ModuleLoad(present, accepted) ==
    /\ ~installer.loaded
    /\ upd.pc = "idle"
    /\ LET status == GetPluginStatus(inst_dirs, inst, src)
       IN IF status \in {"not-installed", "reinstall-required"}
          THEN /\ Len(installer.launches) < MaxLaunches
               /\ InstallPhotoshopPlugin("module_load", present, accepted)
               /\ UNCHANGED upd
          ELSE /\ installer' = [installer EXCEPT !.loaded = TRUE]
               /\ upd' = IF status = "not-synced" THEN UpdateEntered ELSE upd
               /\ UNCHANGED <<inst_dirs, inst>>
    /\ UNCHANGED <<src, glob_order, status_out>>
    /\ UNCHANGED <<loop_of, probe, host, loop_runs>>
    /\ UNCHANGED relay_vars

\* GET /editor-link/install-photoshop-plugin (link.py, lines 86-94).
RequestInstall(present, accepted) ==
    /\ installer.loaded
    /\ upd.pc = "idle"
    /\ Len(installer.launches) < MaxLaunches
    /\ InstallPhotoshopPlugin("request", present, accepted)
    /\ UNCHANGED <<src, glob_order, upd, status_out>>
    /\ UNCHANGED <<loop_of, probe, host, loop_runs>>
    /\ UNCHANGED relay_vars

LoadNext ==
    \/ \E present \in BOOLEAN, accepted \in BOOLEAN : ModuleLoad(present, accepted)
    \/ \E present \in BOOLEAN, accepted \in BOOLEAN : RequestInstall(present, accepted)
    \/ UpdateStart
    \/ UpdateStep
    \/ UpdateEnd

\* ================================================================== LOOPS
\* The contexts a call may come from: a coroutine of one of the loops, or a
\* thread that runs no loop.
Contexts == Loops \cup {"no_loop"}

\* Clients registered and accepted, each created on some loop, their peers
\* there or gone; and the context the next call comes from.
LoopsInit ==
    /\ clients = Clients
    /\ hpc = [c \in Clients |-> "receiving"]
    /\ ws \in [Clients -> {"connected", "disconnected"}]
    /\ inbox = [c \in Clients |-> <<>>]
    /\ bc = <<>>
    /\ thread = ThreadIdle
    /\ loop_of \in [Clients -> Loops]
    /\ \E context \in Contexts : probe = [ProbeIdle EXCEPT !.caller = context]
    /\ host = HostIdle
    /\ loop_runs = TRUE
    /\ installer = InstallerIdle

\* client.send_message(message) run in the chosen context (as line 158 runs
\* it in the handler's).
CallSendMessage(c) ==
    /\ probe.op = "none"
    /\ probe' = [probe EXCEPT !.op = "send_message",
                              !.out[c] = SendMessage(c, probe.caller, ws[c])]
    /\ UNCHANGED <<loop_of, host, loop_runs, installer>>
    /\ UNCHANGED relay_vars
    /\ UNCHANGED sync_vars

\* broadcast_message(message) awaited by a coroutine of the chosen loop: the
\* send coroutines run on the loop of the caller.
CallBroadcastMessage ==
    /\ probe.op = "none"
    /\ probe.caller \in Loops
    /\ probe' = [probe EXCEPT
                    !.op = "broadcast_message",
                    !.out = [c \in Clients |->
                                IF c \in Range(BroadcastTargets(clients, None))
                                THEN SendMessage(c, probe.caller, ws[c])
                                ELSE "none"]]
    /\ UNCHANGED <<loop_of, host, loop_runs, installer>>
    /\ UNCHANGED relay_vars
    /\ UNCHANGED sync_vars

\* broadcast_message_threaded(message) called in the chosen context: the
\* assertion, then every send is handed to the loop of its client.
CallBroadcastThreaded ==
    /\ probe.op = "none"
    /\ probe' = IF ~ThreadedAssertion(probe.caller)
                THEN [probe EXCEPT !.op = "broadcast_message_threaded",
                                   !.err = "AssertionError"]
                ELSE [probe EXCEPT
                        !.op = "broadcast_message_threaded",
                        !.out = [c \in Clients |->
                                    IF c \in clients
                                    THEN SendMessage(c, LoopOf(c), ws[c])
                                    ELSE "none"]]
    /\ UNCHANGED <<loop_of, host, loop_runs, installer>>
    /\ UNCHANGED relay_vars
    /\ UNCHANGED sync_vars

LoopsNext ==
    \/ \E c \in Clients : CallSendMessage(c)
    \/ CallBroadcastMessage
    \/ CallBroadcastThreaded

\* ================================================================== PUBLIC GATE
\* cmd_opts.server_name: not given, or an address to listen on.
ServerNames == {"", "0.0.0.0"}

\* An availability test that forgets --server-name.
AvailableIgnoresServerName(h) == ~(h.share \/ h.listen)

\* LinkScript.available, lines 35-38.
Available(h) == ~(h.share \/ h.listen \/ h.server_name # "")

\* The WebUI is launched with some command line.
GateInit ==
    \E share \in BOOLEAN, listen \in BOOLEAN, server_name \in ServerNames :
        host = [HostIdle EXCEPT !.share = share, !.listen = listen,
                                !.server_name = server_name]

\* LinkScript.__init__, lines 25-33: the WebUI creates a LinkScript; it asks
\* to be called at app start unless the server is reachable from outside.
LinkScriptInit ==
    /\ ~host.started
    /\ host.scripts < MaxScripts
    /\ host' = [host EXCEPT
                   !.scripts = @ + 1,
                   !.callbacks = IF Available(host)
                                 THEN @ \cup {host.scripts + 1} ELSE @]
    /\ UNCHANGED <<loop_of, probe, loop_runs, installer>>
    /\ UNCHANGED relay_vars
    /\ UNCHANGED sync_vars

\* The app has started: the WebUI begins to call the on_app_started callbacks.
AppStarted ==
    /\ ~host.started
    /\ host' = [host EXCEPT !.started = TRUE]
    /\ UNCHANGED <<loop_of, probe, loop_runs, installer>>
    /\ UNCHANGED relay_vars
    /\ UNCHANGED sync_vars

\* LinkScript.startup and SDSync.get, lines 55-58 and 110-135: the singleton is
\* made if there is none, and making it registers the websocket route and the
\* HTTP endpoints.  (SDSync.__init__ also calls update_photoshop_plugin, which
\* returns at once where no plugin is installed, as here.)
Startup(script) ==
    /\ host.started
    /\ script \in host.callbacks \ host.ran
    /\ host' = [host EXCEPT
                   !.ran = @ \cup {script},
                   !.plugin = @ \cup {script},
                   !.constructed = IF @ = 0 THEN 1 ELSE @,
                   !.routes = IF host.constructed = 0 THEN @ + 1 ELSE @]
    /\ UNCHANGED <<loop_of, probe, loop_runs, installer>>
    /\ UNCHANGED relay_vars
    /\ UNCHANGED sync_vars

\* LinkScript.postprocess, lines 49-53, and SDSync.rendered_images, lines
\* 278-291: a batch is done; unless the script is unavailable or the batch is
\* empty, rendered-images is broadcast from the host thread.
Postprocess(script, infotexts) ==
    /\ host.started
    /\ host.callbacks = host.ran
    /\ script \in 1..host.scripts
    /\ host.returned + host.rendered < MaxPosts
    /\ IF ~Available(host)
       THEN host' = [host EXCEPT !.returned = @ + 1]
       ELSE /\ script \in host.plugin
            /\ host' = [host EXCEPT
                           !.rendered = @ + 1,
                           !.broadcasts = IF infotexts = 0 THEN @ ELSE @ + 1]
    /\ UNCHANGED <<loop_of, probe, loop_runs, installer>>
    /\ UNCHANGED relay_vars
    /\ UNCHANGED sync_vars

GateNext ==
    \/ LinkScriptInit
    \/ AppStarted
    \/ \E script \in 1..MaxScripts : Startup(script)
    \/ \E script \in 1..MaxScripts, infotexts \in 0..1 : Postprocess(script, infotexts)

\* ================================================================== SPECIFICATIONS
\* The relay, with the plugin left alone.
Init ==
    /\ RelayInit
    /\ HostInit
    /\ src = [p \in Paths |-> Absent]
    /\ glob_order = SortedPaths
    /\ inst_dirs = {}
    /\ inst = NoFiles
    /\ upd = UpdateIdle(0)
    /\ status_out = "unset"
Next == RelayNext
Spec == Init /\ [][Next]_vars

\* The plugin synchroniser, with the relay left alone.
InitSync == RelayInit /\ HostInit /\ SyncInit
NextSync == SyncNext
SpecSync == InitSync /\ [][NextSync]_vars

\* get_plugin_status over every state of the file system.
InitStatus == RelayInit /\ HostInit /\ StatusInit
NextStatus == StatusCall
SpecStatus == InitStatus /\ [][NextStatus]_vars

\* send_message and the two broadcasts called from every context, for clients
\* created on either loop.
InitLoops ==
    /\ LoopsInit
    /\ src = [p \in Paths |-> Absent]
    /\ glob_order = SortedPaths
    /\ inst_dirs = {}
    /\ inst = NoFiles
    /\ upd = UpdateIdle(0)
    /\ status_out = "unset"
NextLoops == LoopsNext
SpecLoops == InitLoops /\ [][NextLoops]_vars

\* The WebUI from its launch to the batches it renders, under every setting
\* of share, listen and server_name.
InitGate ==
    /\ RelayInit
    /\ loop_of = [c \in Clients |-> "server_loop"]
    /\ probe = ProbeIdle
    /\ GateInit
    /\ loop_runs = TRUE
    /\ installer = InstallerIdle
    /\ src = [p \in Paths |-> Absent]
    /\ glob_order = SortedPaths
    /\ inst_dirs = {}
    /\ inst = NoFiles
    /\ upd = UpdateIdle(0)
    /\ status_out = "unset"
NextGate == GateNext
SpecGate == InitGate /\ [][NextGate]_vars

\* The process from the import of photoshop_plugin on, over every state of
\* the file system it may find.
InitLoad == RelayInit /\ HostInit /\ StatusInit
NextLoad == LoadNext
SpecLoad == InitLoad /\ [][NextLoad]_vars

\* broadcast_message_threaded under fair scheduling of the loop and of the
\* host thread.
InitLive == Init
NextLive == LiveNext
SpecLive == InitLive /\ [][NextLive]_vars /\ LiveFairness

\* ================================================================== PROPERTIES
Calls == 1..Len(bc)
TasksOf(b) == 1..Len(bc[b].tasks)
StatusNow == GetPluginStatus(inst_dirs, inst, src)

\* C1: a JSON object a client sends is relayed to every other registered
\* client and never back to the client that sent it.
C1_RelayExcludesSender ==
    \A b \in Calls :
        bc[b].caller \in Clients =>
            /\ \A i \in TasksOf(b) : bc[b].tasks[i].to # bc[b].caller
            /\ {bc[b].tasks[i].to : i \in TasksOf(b)} = bc[b].reg \ {bc[b].caller}

\* C2: a client whose handler has removed it from the registry is no target
\* of any broadcast that starts afterwards, and no send delivers to a client
\* that is no longer registered.
C2_NoSendAfterRemoval ==
    \A b \in Calls : \A i \in TasksOf(b) :
        /\ bc[b].tasks[i].to \notin bc[b].gone
        /\ bc[b].tasks[i].res = "ok" => ~bc[b].tasks[i].late

\* C2 witness: a broadcast that started after a removal has delivered, and a
\* send of an earlier broadcast has run for a client removed in between.
C2_Witness ==
    /\ \E b \in Calls : /\ bc[b].gone # {}
                        /\ \E i \in TasksOf(b) : bc[b].tasks[i].res = "ok"
    /\ \E b \in Calls : \E i \in TasksOf(b) : bc[b].tasks[i].late

\* C3: broadcast_message(message, source_client) makes no send for the client
\* whose connection is source_client and exactly one for every other client
\* registered when it is called.
C3_BroadcastExcludesSource ==
    \A b \in Calls :
        bc[b].kind = "coop" =>
            /\ \A i \in TasksOf(b) : /\ WebsocketOf(bc[b].tasks[i].to) # bc[b].src
                                     /\ bc[b].tasks[i].to \in bc[b].reg
            /\ \A c \in bc[b].reg :
                   WebsocketOf(c) # bc[b].src =>
                       Cardinality({i \in TasksOf(b) : bc[b].tasks[i].to = c}) = 1

\* C3 witness: a call whose source_client is the connection of one of three
\* registered clients.
C3_Witness ==
    \E b \in Calls :
        /\ bc[b].kind = "coop"
        /\ Cardinality(bc[b].reg) = 3
        /\ \E c \in bc[b].reg : WebsocketOf(c) = bc[b].src
        /\ Len(bc[b].tasks) = 2

\* C4: broadcast_message_threaded called with several clients registered, one
\* of them closed by its peer and not yet removed, returns without raising
\* the failure of the send to that client.
C4_ThreadedSendFailureNotRaised ==
    ~(/\ thread.pc = "raised"
      /\ thread.err = "send_failed"
      /\ Len(bc[thread.b].tasks) >= 2
      /\ bc[thread.b].tasks[thread.idx].to \in clients
      /\ hpc[bc[thread.b].tasks[thread.idx].to] = "receiving"
      /\ ws[bc[thread.b].tasks[thread.idx].to] = "disconnected"
      /\ \A i \in TasksOf(thread.b) :
             i # thread.idx => ws[bc[thread.b].tasks[i].to] = "connected")

\* C5: in a cooperative broadcast a failed send is not raised to the caller,
\* and when the call returns every send has been attempted and every send to
\* a connected client has delivered.
C5_CoopFailureIsolated ==
    \A b \in Calls :
        bc[b].kind = "coop" =>
            /\ bc[b].state # "raised"
            /\ bc[b].state = "done" =>
                   \A i \in TasksOf(b) : bc[b].tasks[i].res # "pending"
            /\ \A i \in TasksOf(b) :
                   bc[b].tasks[i].res = "ok" => b \in Range(inbox[bc[b].tasks[i].to])
            /\ (bc[b].caller \in Clients /\ bc[b].state = "running")
                   => hpc[bc[b].caller] = "gathering"

\* C5 witness: a relayed frame whose broadcast has returned with one send
\* failed and another delivered, its sender receiving again.
C5_Witness ==
    \E b \in Calls :
        /\ bc[b].kind = "coop"
        /\ bc[b].state = "done"
        /\ bc[b].caller \in Clients
        /\ hpc[bc[b].caller] = "receiving"
        /\ \E i \in TasksOf(b) : bc[b].tasks[i].res = "failed"
        /\ \E i \in TasksOf(b) : /\ bc[b].tasks[i].res = "ok"
                                 /\ bc[b].tasks[i].to # bc[b].caller

\* C6: a client connecting or disconnecting while broadcast_message_threaded
\* iterates the registry never makes the call raise.
C6_IterationNeverCrashes ==
    ~(thread.pc = "raised" /\ thread.err = "set_changed_size")

\* C7: while an update has not yet written version.txt, however far it got
\* and however it was stopped, get_plugin_status is 'not-synced'; and
\* version.txt is the last file an update writes.
C7_InterruptedUpdateNotSynced ==
    /\ (upd.ran /\ upd.pc \in {"writing", "interrupted", "raised"}
            /\ VersionTxt \notin Range(upd.writes))
           => StatusNow = "not-synced"
    /\ \A i \in 1..Len(upd.writes) :
           upd.writes[i] = VersionTxt => i = Len(upd.writes)

\* C7 witness: an update stopped after it rewrote both files of the tree and
\* before it wrote version.txt.
C7_Witness ==
    /\ upd.pc = "interrupted"
    /\ Len(upd.writes) = 2
    /\ upd.idx = Len(upd.names)
    /\ upd.names[upd.idx] = VersionTxt

\* C8: an update of an installation whose marker differs ends with every file
\* of the manifest installed with the manifest's bytes, files missing from the
\* installation created, and get_plugin_status 'ok'.
C8_UpdateInstallsManifest ==
    (upd.ran /\ upd.pc \in {"returned", "raised"}) =>
        /\ \A p \in AllPaths : upd.files[p] # Absent => inst[p] = upd.files[p]
        /\ StatusNow = "ok"

\* C9: the second of two updates of an installation in a row, the source tree
\* unchanged, writes no file and leaves get_plugin_status 'ok'.
C9_SecondUpdateWritesNothing ==
    (upd.pc \in {"returned", "raised"} /\ upd.prior = 1
            /\ InstalledPathExists(inst_dirs)) =>
        /\ upd.writes = <<>>
        /\ StatusNow = "ok"

\* C10: get_plugin_status returns one of the four values: 'ok' iff the
\* expected directory exists and holds the current marker, 'not-installed' iff
\* no plugin directory exists, 'reinstall-required' iff only one of another
\* version does, 'not-synced' otherwise, a missing version.txt included.
C10_StatusIsOneOfFour ==
    status_out # "unset" =>
        /\ status_out \in {"ok", "not-installed", "reinstall-required", "not-synced"}
        /\ status_out = "ok" <=>
               (InstalledPathExists(inst_dirs)
                   /\ inst[VersionTxt] = GetCurrentPluginVersion(src))
        /\ status_out = "not-installed" <=> inst_dirs = {}
        /\ status_out = "reinstall-required" <=>
               (~InstalledPathExists(inst_dirs) /\ inst_dirs # {})
        /\ status_out = "not-synced" <=>
               (InstalledPathExists(inst_dirs)
                   /\ inst[VersionTxt] # GetCurrentPluginVersion(src))

\* C11: the version marker differs whenever the source tree changes: a byte
\* of a file changed, a file added, a file removed.
C11_MarkerChangesWithTree ==
    [][src' # src => GetCurrentPluginVersion(src') # GetCurrentPluginVersion(src)]_vars

\* C12: a turn of the update's loop leaves alone every file that is installed
\* and not in the manifest, and every file of the manifest that is installed
\* with the manifest's bytes: neither changed nor written.
C12_UpdateTouchesOnlyChangedFiles ==
    [][upd.pc = "writing" =>
         \A p \in AllPaths :
             (upd.files[p] = Absent \/ inst[p] = upd.files[p]) =>
                 /\ inst'[p] = inst[p]
                 /\ Len(upd'.writes) > Len(upd.writes) =>
                        upd'.writes[Len(upd'.writes)] # p]_vars

\* C12 witness: an update has returned that skipped a file equal to the
\* manifest's and wrote version.txt, a file removed from the source tree
\* still installed.
C12_Witness ==
    /\ upd.pc = "returned"
    /\ upd.ran
    /\ upd.files["a.js"] = Absent
    /\ inst["a.js"] # Absent
    /\ upd.files["b.js"] # Absent
    /\ inst["b.js"] = upd.files["b.js"]
    /\ upd.writes = <<VersionTxt>>

\* C13: a client is in the registry if and only if its handshake has
\* succeeded, its connection is open and its handler is in its receive loop.
C13_RegisteredIffOpen ==
    \A c \in Clients :
        c \in clients <=>
            (ws[c] = "connected" /\ hpc[c] \in {"receiving", "gathering"})

\* C14: the step that ends a client's handler, on whichever path, finds the
\* client in the registry and removes it and no other client.
C14_ExitRemovesOnlyItself ==
    [][\A c \in Clients :
          (hpc[c] # "exited" /\ hpc'[c] = "exited") =>
              /\ c \in clients
              /\ clients' = clients \ {c}]_vars

\* C14 witness: the handlers of two clients have ended, the third client is
\* still registered and has received a broadcast made while all three were.
C14_Witness ==
    /\ hpc[1] = "exited"
    /\ hpc[2] = "exited"
    /\ hpc[3] = "receiving"
    /\ clients = {3}
    /\ \E b \in Calls : bc[b].reg = Clients /\ b \in Range(inbox[3])

\* C15: every frame relayed decoded to a JSON mapping, whatever its action;
\* and the step in which a handler, its connection open, takes a frame it
\* cannot handle makes no broadcast, closes the connection and removes the
\* client from the registry.
C15_BadFrameFailsFast ==
    /\ [](\A b \in Calls :
             bc[b].caller \in Clients => bc[b].frame \in {"load-image", "other-action"})
    /\ [][\A c \in Clients :
             (hpc[c] = "receiving" /\ ws[c] = "connected" /\ hpc'[c] = "exited") =>
                 /\ bc' = bc
                 /\ ws'[c] = "disconnected"
                 /\ c \notin clients']_vars
    /\ [][\A c \in Clients :
             (hpc[c] = "receiving" /\ hpc'[c] = "gathering") =>
                 /\ Len(bc') = Len(bc) + 1
                 /\ bc'[Len(bc')].caller = c]_vars

\* C15 witness: a frame with an action the plugin does not know has been
\* delivered to another client, and a handler has ended on a bad frame.
C15_Witness ==
    /\ \E b \in Calls :
           /\ bc[b].frame = "other-action"
           /\ \E i \in TasksOf(b) : /\ bc[b].tasks[i].res = "ok"
                                    /\ bc[b].tasks[i].to # bc[b].caller
    /\ \E c \in Clients : hpc[c] = "exited"

\* C16: every client receives the messages of the broadcasts it receives in
\* the order in which the broadcasts were called.
C16_DeliveryInCallOrder ==
    \A c \in Clients :
        \A i \in 1..Len(inbox[c]) : \A j \in 1..Len(inbox[c]) :
            i < j => inbox[c][i] < inbox[c][j]

\* C17: when broadcast_message_threaded returns or raises, none of the sends
\* it scheduled is still pending.
C17_NoPendingAtReturn ==
    thread.pc \in {"returned", "raised"} =>
        \A i \in TasksOf(thread.b) : bc[thread.b].tasks[i].res # "pending"

\* C18: a send called on a loop that is not the client's, or on no loop,
\* fails its assertion and sends nothing; broadcast_message_threaded called
\* where a loop runs fails its assertion before it schedules a send, and
\* called where none runs, runs every send on the loop of its client.
C18_SendsOnOwnLoop ==
    /\ probe.op \in {"send_message", "broadcast_message"} =>
           \A c \in Clients :
               probe.out[c] # "none" =>
                   (probe.out[c] = "AssertionError" <=> probe.caller # loop_of[c])
    /\ probe.op = "broadcast_message_threaded" =>
           IF probe.caller # "no_loop"
           THEN /\ probe.err = "AssertionError"
                /\ \A c \in Clients : probe.out[c] = "none"
           ELSE /\ probe.err = ""
                /\ \A c \in Clients : probe.out[c] \in {"ok", "RuntimeError"}

\* C18 witness: a cooperative broadcast from a coroutine of one loop, with an
\* open client of the other loop refused and an open client of its own sent to.
C18_Witness ==
    /\ probe.op = "broadcast_message"
    /\ \E c \in Clients : /\ ws[c] = "connected"
                           /\ loop_of[c] # probe.caller
                           /\ probe.out[c] = "AssertionError"
    /\ \E c \in Clients : probe.out[c] = "ok"

\* C19: with share, listen or server_name set, no startup callback is
\* registered, the hub is never made, no route is registered and postprocess
\* broadcasts nothing; with none set, the hub is made once, with its routes,
\* by the first startup callback.
C19_PublicGate ==
    IF host.share \/ host.listen \/ host.server_name # ""
    THEN /\ host.callbacks = {}
         /\ host.constructed = 0
         /\ host.routes = 0
         /\ host.rendered = 0
         /\ host.broadcasts = 0
    ELSE /\ host.callbacks = 1..host.scripts
         /\ host.constructed = (IF host.ran = {} THEN 0 ELSE 1)
         /\ host.routes = host.constructed

\* C19 witness: the WebUI launched with only server_name set has started with
\* two LinkScript objects, and postprocess has been called twice.
C19_Witness ==
    /\ ~host.share
    /\ ~host.listen
    /\ host.server_name # ""
    /\ host.started
    /\ host.scripts = 2
    /\ host.returned = 2

\* C20: a client to which a send of a broadcast has failed is no longer in
\* the registry.
C20_FailedTargetDropped ==
    \A b \in Calls : \A i \in TasksOf(b) :
        bc[b].tasks[i].res = "failed" => bc[b].tasks[i].to \notin clients

\* C21: every launch of the installer was made by a request to the
\* install-photoshop-plugin endpoint.
C21_InstallerOnlyOnRequest ==
    \A i \in 1..Len(installer.launches) : installer.launches[i] = "request"

\* C22: while no directory of the plugin's own version exists, a call of
\* update_photoshop_plugin returns at once: it writes no file, creates no
\* directory and leaves the directories of other versions as they are.
C22_NoWriteWithoutInstallation ==
    /\ [](PluginVersion \notin inst_dirs =>
             /\ inst = NoFiles
             /\ upd.writes = <<>>
             /\ ~upd.ran
             /\ upd.pc \in {"idle", "returned"})
    /\ [][(PluginVersion \notin inst_dirs /\ upd'.pc # "idle") =>
             (inst' = inst /\ inst_dirs' = inst_dirs)]_vars

\* C22 witness: an update has returned where the plugin is installed in
\* another version only and the source tree holds a file.
C22_Witness ==
    /\ upd.pc = "returned"
    /\ inst_dirs = {OtherVersion}
    /\ \E p \in Paths : src[p] # Absent /\ src[p] # <<>>

\* C23: whenever get_plugin_status is 'ok', every file of the current
\* manifest is installed with the manifest's bytes.
C23_OkMeansInstalledEqualsManifest ==
    StatusNow = "ok" =>
        \A p \in AllPaths :
            ReadPhotoshopPluginFiles(src)[p] # Absent =>
                inst[p] = ReadPhotoshopPluginFiles(src)[p]

\* C24: every call of broadcast_message_threaded that has begun returns or
\* raises in the end.
C24_ThreadedCallEnds ==
    (thread.pc \in {"iterating", "waiting"}) ~> (thread.pc \in {"returned", "raised"})

====
